---------------------------- MODULE Spec2Model ----------------------------
(***************************************************************************)
(* Model of cursor-scripts/review.py: the flashcard store (load_cards,     *)
(* save_cards), add_card, get_due_cards, the SM-2 update review_card,      *)
(* get_stats, list_cards, delete_card, get_random_card, the markdown       *)
(* export and import, and the interactive quiz.                            *)
(*                                                                         *)
(* Representation                                                          *)
(*   - The clock is a count of ticks; a calendar day holds TicksPerDay     *)
(*     ticks.  A call reads the clock once.                                *)
(*   - An ISO timestamp string is the pair <<date, time of day>>; strings  *)
(*     are compared field by field, as fixed-width text is.                *)
(*   - ease_factor is held in hundredths (2.5 is 250).  The quality        *)
(*     adjustment 0.1 - (5-q)*(0.08 + (5-q)*0.02) is a whole number of     *)
(*     hundredths for every integer q.                                     *)
(*   - round(interval * ease_factor) is a binary floating point product:   *)
(*     when the decimal product lies exactly half way between two integers *)
(*     the float may fall on either side, so both neighbours are allowed.  *)
(*   - An optional value (None or x) is the sequence <<>> or <<x>>.        *)
(***************************************************************************)
EXTENDS Integers, Sequences, FiniteSets, TLC

VARIABLES
    file,   \* FLASHCARDS_FILE: <<>> when absent, else <<data>>
    now,    \* the wall clock, in ticks
    ret,    \* the last call: its name, arguments and outcome
    proc,   \* the invocation in progress, when a call is followed step by step
            \* (a pair of them where two processes run side by side)
    log     \* the completed reviews, oldest first, where a specification keeps them

vars == <<file, now, ret, proc, log>>

---------------------------------------------------------------------------
(* Bounds of the model.  Each specification bounds the collection, the     *)
(* number of reviews and the clock to what its properties need.             *)

TicksPerDay == 2      \* ticks of the clock in a calendar day

MaxCards == 2         \* Spec: no add_card on a collection this large
MaxReviews == 3       \* Spec: no review_card once stats.total_reviews is this
MaxTime == 1          \* Spec: the clock stops at this tick

StreakMaxCards == 1   \* SpecStreak: as MaxCards
StreakMaxReviews == 2 \* SpecStreak: as MaxReviews
StreakMaxTime == 4    \* SpecStreak: as MaxTime

DueMaxCards == 2      \* SpecDue: as MaxCards
DueMaxReviews == 1    \* SpecDue: as MaxReviews
DueMaxTime == 3       \* SpecDue: as MaxTime

GapMaxCards == 1      \* SpecGap: as MaxCards
GapMaxReviews == 3    \* SpecGap: as MaxReviews
GapMaxTime == 6       \* SpecGap: as MaxTime

---------------------------------------------------------------------------

HistMaxCards == 1     \* SpecHist: as MaxCards
HistMaxReviews == 3   \* SpecHist: as MaxReviews
HistMaxTime == 1      \* SpecHist: as MaxTime

MdMaxCards == 2       \* SpecMd: as MaxCards

DelMaxCards == 2      \* SpecDel: as MaxCards
DelMaxReviews == 2    \* SpecDel: as MaxReviews
DelMaxTime == 1       \* SpecDel: as MaxTime

OpsMaxCards == 1      \* SpecOps: as MaxCards
OpsMaxReviews == 1    \* SpecOps: as MaxReviews
OpsMaxTime == 1       \* SpecOps: as MaxTime

QuizMaxCards == 2     \* SpecQuiz: as MaxCards
QuizMaxReviews == 2   \* SpecQuiz: as MaxReviews
QuizMaxTime == 1      \* SpecQuiz: as MaxTime

CrashMaxCards == 2    \* SpecCrash: as MaxCards
CrashMaxReviews == 1  \* SpecCrash: as MaxReviews
CrashMaxTime == 1     \* SpecCrash: as MaxTime

StatsMaxCards == 2    \* SpecStats: as MaxCards
StatsMaxReviews == 5  \* SpecStats: as MaxReviews
StatsMaxTime == 1     \* SpecStats: as MaxTime

TwoMaxCards == 2      \* SpecTwo: as MaxCards
TwoMaxReviews == 1    \* SpecTwo: as MaxReviews
TwoMaxTime == 1       \* SpecTwo: as MaxTime

(* Constants of the program *)

CATEGORIES == <<"dev", "concept", "tool", "workflow", "debug", "general">>

DEFAULT_EASE == 250

MIN_EASE == 130

None == <<>>

Some(x) == <<x>>

Range(s) == {s[i] : i \in 1..Len(s)}

---------------------------------------------------------------------------
(* Time *)

\* datetime.isoformat: date part, then time-of-day part
isoformat(t) == <<t \div TicksPerDay, t % TicksPerDay>>

\* datetime.fromisoformat
fromisoformat(s) == s[1] * TicksPerDay + s[2]

\* strftime("%Y-%m-%d")
strftime_date(t) == t \div TicksPerDay

\* t + timedelta(days = d)
plus_days(t, d) == t + d * TicksPerDay

\* str.__lt__ on two timestamp strings: lexicographic
str_lt(a, b) == a[1] < b[1] \/ (a[1] = b[1] /\ a[2] < b[2])

---------------------------------------------------------------------------
(* Card store *)

EmptyData ==
    [cards |-> <<>>,
     stats |-> [total_reviews |-> 0, streak_days |-> 0, last_review_date |-> None]]

\* json.load of the file's text, or the empty collection when it is absent
data_of(f) == IF f = <<>> THEN EmptyData ELSE f[1]

load_cards == data_of(file)

save_cards(data) == file' = <<data>>

\* strftime("%Y%m%d%H%M%S") + str(random.randint(100, 999))
generate_id(r) == <<now, r>>

\* What a call leaves behind for inspection: its name and arguments, the
\* error it raised ("" when none), the cards it returned, whether it called
\* save_cards, the card and stats it loaded before updating them, and the
\* other values calls return: a dict of statistics, a boolean, a text.
NoRet ==
    [op |-> "", id |-> <<>>, quality |-> 0, category |-> "", limit |-> None,
     error |-> "", cards |-> <<>>, saved |-> FALSE,
     before |-> None, stats_before |-> None,
     stats |-> None, returned |-> FALSE, text |-> <<>>]

\* no invocation is in progress
Idle == [pc |-> "idle", cards |-> <<>>, i |-> 0, data |-> None, old |-> <<>>]

\* the new card is first due a day after it was made
new_card_due_tomorrow(r, question, answer, category, tags, source) ==
    [id |-> generate_id(r),
     question |-> question,
     answer |-> answer,
     category |-> category,
     tags |-> tags,
     source |-> source,
     created |-> isoformat(now),
     last_review |-> None,
     next_review |-> isoformat(plus_days(now, 1)),
     ease_factor |-> DEFAULT_EASE,
     interval |-> 0,
     repetitions |-> 0,
     total_reviews |-> 0]

new_card(r, question, answer, category, tags, source) ==
    [id |-> generate_id(r),
     question |-> question,
     answer |-> answer,
     category |-> category,
     tags |-> tags,
     source |-> source,
     created |-> isoformat(now),
     last_review |-> None,
     next_review |-> isoformat(now),
     ease_factor |-> DEFAULT_EASE,
     interval |-> 0,
     repetitions |-> 0,
     total_reviews |-> 0]

\* the new card is saved with the statistics of an empty collection
add_card_fresh_stats(r, question, answer, category, tags, source) ==
    LET data == load_cards
        card == new_card(r, question, answer, category, tags, source)
    IN  /\ save_cards([cards |-> Append(data.cards, card), stats |-> EmptyData.stats])
        /\ ret' = [NoRet EXCEPT !.op = "add_card", !.category = category,
                                !.cards = <<card>>, !.saved = TRUE]
        /\ UNCHANGED now

add_card(r, question, answer, category, tags, source) ==
    LET data == load_cards
        card == new_card(r, question, answer, category, tags, source)
    IN  /\ save_cards([data EXCEPT !.cards = Append(@, card)])
        /\ ret' = [NoRet EXCEPT !.op = "add_card", !.category = category,
                                !.cards = <<card>>, !.saved = TRUE]
        /\ UNCHANGED now

---------------------------------------------------------------------------
(* Due selection *)

is_due_strict(card, t) == fromisoformat(card.next_review) < t

is_due(card, t) == fromisoformat(card.next_review) <= t

\* list.sort(key = next_review): stable, ascending by the timestamp string
RECURSIVE insert_sorted(_, _)
insert_sorted(sorted, card) ==
    IF sorted = <<>> THEN <<card>>
    ELSE IF str_lt(card.next_review, sorted[Len(sorted)].next_review)
         THEN Append(insert_sorted(SubSeq(sorted, 1, Len(sorted) - 1), card),
                     sorted[Len(sorted)])
         ELSE Append(sorted, card)

RECURSIVE sort_by_next_review(_)
sort_by_next_review(cards) ==
    IF cards = <<>> THEN <<>>
    ELSE insert_sorted(sort_by_next_review(SubSeq(cards, 1, Len(cards) - 1)),
                       cards[Len(cards)])

\* due[:k]
slice_to(due, k) ==
    IF k >= 0 THEN SubSeq(due, 1, IF k < Len(due) THEN k ELSE Len(due))
    ELSE SubSeq(due, 1, IF Len(due) + k > 0 THEN Len(due) + k ELSE 0)

\* "if limit:" is true for a limit that is neither None nor 0
limit_applies(limit) == limit # None /\ limit[1] # 0

due_cards(data, t, limit) ==
    LET due == sort_by_next_review(SelectSeq(data.cards, LAMBDA c : is_due(c, t)))
    IN  IF limit_applies(limit) THEN slice_to(due, limit[1]) ELSE due

get_due_cards(limit) ==
    /\ ret' = [NoRet EXCEPT !.op = "get_due_cards", !.limit = limit,
                            !.cards = due_cards(load_cards, now, limit)]
    /\ UNCHANGED <<file, now>>

---------------------------------------------------------------------------
(* SM-2 update *)

\* round(x) of a product held in hundredths
round_hundredths(n) ==
    IF n % 100 < 50 THEN {n \div 100}
    ELSE IF n % 100 > 50 THEN {n \div 100 + 1}
    ELSE {n \div 100, n \div 100 + 1}

\* 0.1 - (5 - quality) * (0.08 + (5 - quality) * 0.02), in hundredths
ease_delta(quality) == 10 - (5 - quality) * (8 + (5 - quality) * 2)

sm2_ease_no_floor(card, quality) == card.ease_factor + ease_delta(quality)

\* the adjusted ease held under a ceiling of 2.6
sm2_ease_capped(card, quality) ==
    IF card.ease_factor + ease_delta(quality) > DEFAULT_EASE + 10
    THEN DEFAULT_EASE + 10
    ELSE IF card.ease_factor + ease_delta(quality) > MIN_EASE
         THEN card.ease_factor + ease_delta(quality)
         ELSE MIN_EASE

\* a failed review leaves the ease factor alone
sm2_ease_only_on_success(card, quality) ==
    IF quality < 3 THEN card.ease_factor
    ELSE IF card.ease_factor + ease_delta(quality) > MIN_EASE
         THEN card.ease_factor + ease_delta(quality)
         ELSE MIN_EASE

sm2_ease(card, quality) ==
    IF card.ease_factor + ease_delta(quality) > MIN_EASE
    THEN card.ease_factor + ease_delta(quality)
    ELSE MIN_EASE

sm2_repetitions_fail_below_2(card, quality) ==
    IF quality < 2 THEN 0 ELSE card.repetitions + 1

\* a failed review leaves the count where it was
sm2_repetitions_kept_on_failure(card, quality) ==
    IF quality < 3 THEN card.repetitions ELSE card.repetitions + 1

sm2_repetitions(card, quality) ==
    IF quality < 3 THEN 0 ELSE card.repetitions + 1

sm2_interval_after_ease(card, quality) ==
    IF quality < 3 THEN {1}
    ELSE IF card.repetitions = 0 THEN {1}
    ELSE IF card.repetitions = 1 THEN {6}
    ELSE round_hundredths(card.interval * sm2_ease(card, quality))

\* a failed review leaves the interval where it was
sm2_interval_kept_on_failure(card, quality) ==
    IF quality < 3 THEN {card.interval}
    ELSE IF card.repetitions = 0 THEN {1}
    ELSE IF card.repetitions = 1 THEN {6}
    ELSE round_hundredths(card.interval * card.ease_factor)

\* the first success gives six days and the second one day
sm2_interval_swapped(card, quality) ==
    IF quality < 3 THEN {1}
    ELSE IF card.repetitions = 0 THEN {6}
    ELSE IF card.repetitions = 1 THEN {1}
    ELSE round_hundredths(card.interval * card.ease_factor)

sm2_interval(card, quality) ==
    IF quality < 3 THEN {1}
    ELSE IF card.repetitions = 0 THEN {1}
    ELSE IF card.repetitions = 1 THEN {6}
    ELSE round_hundredths(card.interval * card.ease_factor)

update_streak_counts_reviews(stats, t) ==
    IF stats.last_review_date = Some(strftime_date(t)) THEN stats.streak_days + 1
    ELSE IF stats.last_review_date = Some(strftime_date(plus_days(t, -1)))
         THEN stats.streak_days + 1
    ELSE 1

update_streak_no_yesterday(stats, t) ==
    IF stats.last_review_date = Some(strftime_date(t)) THEN stats.streak_days
    ELSE 1

\* every review on a new day lengthens the streak, however long the gap
update_streak_ignores_gap(stats, t) ==
    IF stats.last_review_date = Some(strftime_date(t)) THEN stats.streak_days
    ELSE stats.streak_days + 1

update_streak(stats, t) ==
    IF stats.last_review_date = Some(strftime_date(t)) THEN stats.streak_days
    ELSE IF stats.last_review_date = Some(strftime_date(plus_days(t, -1)))
         THEN stats.streak_days + 1
    ELSE 1

update_stats(stats, t) ==
    [total_reviews |-> stats.total_reviews + 1,
     streak_days |-> update_streak(stats, t),
     last_review_date |-> Some(strftime_date(t))]

\* the review also stamps the card as created now
update_card_resets_created(card, quality, iv, t) ==
    [card EXCEPT !.repetitions = sm2_repetitions(card, quality),
                 !.interval = iv,
                 !.ease_factor = sm2_ease(card, quality),
                 !.created = isoformat(t),
                 !.last_review = Some(isoformat(t)),
                 !.next_review = isoformat(plus_days(t, iv)),
                 !.total_reviews = @ + 1]

\* the next review is set to the time of this one
update_card_due_now(card, quality, iv, t) ==
    [card EXCEPT !.repetitions = sm2_repetitions(card, quality),
                 !.interval = iv,
                 !.ease_factor = sm2_ease(card, quality),
                 !.last_review = Some(isoformat(t)),
                 !.next_review = isoformat(t),
                 !.total_reviews = @ + 1]

update_card(card, quality, iv, t) ==
    [card EXCEPT !.repetitions = sm2_repetitions(card, quality),
                 !.interval = iv,
                 !.ease_factor = sm2_ease(card, quality),
                 !.last_review = Some(isoformat(t)),
                 !.next_review = isoformat(plus_days(t, iv)),
                 !.total_reviews = @ + 1]

\* the index of the first card with this id, 0 when there is none
find_card(cards, card_id) ==
    LET hits == {i \in 1..Len(cards) : cards[i].id = card_id}
    IN  IF hits = {} THEN 0 ELSE CHOOSE i \in hits : \A j \in hits : i <= j

card_not_found_saves(card_id, quality) ==
    /\ save_cards(load_cards)
    /\ ret' = [NoRet EXCEPT !.op = "review_card", !.id = card_id,
                            !.quality = quality, !.error = "NotFound",
                            !.saved = TRUE]
    /\ UNCHANGED now

\* raise ValueError("Card not found"): nothing is saved
card_not_found(card_id, quality) ==
    /\ ret' = [NoRet EXCEPT !.op = "review_card", !.id = card_id,
                            !.quality = quality, !.error = "NotFound"]
    /\ UNCHANGED <<file, now>>

review_card(card_id, quality) ==
    LET data == load_cards
        i == find_card(data.cards, card_id)
    IN  IF i = 0 THEN card_not_found(card_id, quality)
        ELSE /\ \E iv \in sm2_interval(data.cards[i], quality) :
                  LET card == update_card(data.cards[i], quality, iv, now)
                  IN  /\ save_cards([cards |-> [data.cards EXCEPT ![i] = card],
                                     stats |-> update_stats(data.stats, now)])
                      /\ ret' = [NoRet EXCEPT !.op = "review_card",
                                   !.id = card_id, !.quality = quality,
                                   !.cards = <<card>>, !.saved = TRUE,
                                   !.before = Some(data.cards[i]),
                                   !.stats_before = Some(data.stats)]
             /\ UNCHANGED now

---------------------------------------------------------------------------
(* Statistics, listing and deletion *)

\* each bucket is the set of the positions of its cards
mastered(cards) == {i \in 1..Len(cards) : cards[i].interval >= 21}

\* the learning bucket starts at interval 0
learning_from_zero(cards) ==
    {i \in 1..Len(cards) : 0 <= cards[i].interval /\ cards[i].interval < 21}

learning(cards) ==
    {i \in 1..Len(cards) : 0 < cards[i].interval /\ cards[i].interval < 21}

new(cards) == {i \in 1..Len(cards) : cards[i].interval = 0}

by_category(cards) ==
    [cat \in Range(CATEGORIES) |->
        Cardinality({i \in 1..Len(cards) : cards[i].category = cat})]

stats_dict(data, t) ==
    [total_cards |-> Len(data.cards),
     due_today |-> Cardinality({i \in 1..Len(data.cards) : is_due(data.cards[i], t)}),
     mastered |-> Cardinality(mastered(data.cards)),
     learning |-> Cardinality(learning(data.cards)),
     new |-> Cardinality(new(data.cards)),
     total_reviews |-> data.stats.total_reviews,
     streak_days |-> data.stats.streak_days,
     by_category |-> by_category(data.cards)]

get_stats ==
    /\ ret' = [NoRet EXCEPT !.op = "get_stats",
                            !.stats = Some(stats_dict(load_cards, now))]
    /\ UNCHANGED <<file, now>>

\* "if category:" is false for None and for the empty string
list_cards(category) ==
    LET cards == load_cards.cards
    IN  /\ ret' = [NoRet EXCEPT !.op = "list_cards",
                     !.cards = IF category # None /\ category[1] # ""
                               THEN SelectSeq(cards, LAMBDA c : c.category = category[1])
                               ELSE cards]
        /\ UNCHANGED <<file, now>>

\* the deletion also brings the review counter down to the cards that remain
delete_card_recounts(card_id) ==
    LET data == load_cards
        kept == SelectSeq(data.cards, LAMBDA c : c.id # card_id)
        gone == SelectSeq(data.cards, LAMBDA c : c.id = card_id)
    IN  /\ IF Len(kept) < Len(data.cards)
           THEN /\ save_cards([cards |-> kept,
                               stats |-> [data.stats EXCEPT !.total_reviews =
                                            @ - gone[1].total_reviews]])
                /\ ret' = [NoRet EXCEPT !.op = "delete_card", !.id = card_id,
                             !.saved = TRUE, !.returned = TRUE,
                             !.stats_before = Some(data.stats)]
           ELSE /\ ret' = [NoRet EXCEPT !.op = "delete_card", !.id = card_id]
                /\ UNCHANGED file
        /\ UNCHANGED now

\* the file is written, and True returned, whether or not a card went
delete_card_always_saves(card_id) ==
    LET data == load_cards
        kept == SelectSeq(data.cards, LAMBDA c : c.id # card_id)
    IN  /\ save_cards([data EXCEPT !.cards = kept])
        /\ ret' = [NoRet EXCEPT !.op = "delete_card", !.id = card_id,
                     !.saved = TRUE, !.returned = TRUE,
                     !.stats_before = Some(data.stats)]
        /\ UNCHANGED now

delete_card(card_id) ==
    LET data == load_cards
        kept == SelectSeq(data.cards, LAMBDA c : c.id # card_id)
    IN  /\ IF Len(kept) < Len(data.cards)
           THEN /\ save_cards([data EXCEPT !.cards = kept])
                /\ ret' = [NoRet EXCEPT !.op = "delete_card", !.id = card_id,
                             !.saved = TRUE, !.returned = TRUE,
                             !.stats_before = Some(data.stats)]
           ELSE /\ ret' = [NoRet EXCEPT !.op = "delete_card", !.id = card_id]
                /\ UNCHANGED file
        /\ UNCHANGED now

---------------------------------------------------------------------------
(* Text.  Where a call reads or writes text, a str is the sequence of its  *)
(* characters.                                                             *)

WHITESPACE == {" ", "\t", "\n"}

LOWER == <<"a", "b", "c", "d", "e", "f", "g", "h", "i", "j", "k", "l", "m",
           "n", "o", "p", "q", "r", "s", "t", "u", "v", "w", "x", "y", "z">>

UPPER == <<"A", "B", "C", "D", "E", "F", "G", "H", "I", "J", "K", "L", "M",
           "N", "O", "P", "Q", "R", "S", "T", "U", "V", "W", "X", "Y", "Z">>

DIGITS == <<"0", "1", "2", "3", "4", "5", "6", "7", "8", "9">>

\* the position of the first ch in s, 0 when there is none
index_of(s, ch) ==
    LET hits == {i \in 1..Len(s) : s[i] = ch}
    IN  IF hits = {} THEN 0 ELSE CHOOSE i \in hits : \A j \in hits : i <= j

upper(s) ==
    [i \in 1..Len(s) |->
        IF index_of(LOWER, s[i]) = 0 THEN s[i] ELSE UPPER[index_of(LOWER, s[i])]]

lower(s) ==
    [i \in 1..Len(s) |->
        IF index_of(UPPER, s[i]) = 0 THEN s[i] ELSE LOWER[index_of(UPPER, s[i])]]

\* s[k:]
from(s, k) == SubSeq(s, k + 1, Len(s))

startswith(s, prefix) ==
    Len(s) >= Len(prefix) /\ SubSeq(s, 1, Len(prefix)) = prefix

\* "f in s" for two strs
contains(s, f) ==
    \E k \in 0..(Len(s) - Len(f)) : SubSeq(s, k + 1, k + Len(f)) = f

RECURSIVE lstrip(_, _)
lstrip(s, chars) ==
    IF s # <<>> /\ Head(s) \in chars THEN lstrip(Tail(s), chars) ELSE s

RECURSIVE rstrip(_, _)
rstrip(s, chars) ==
    IF s # <<>> /\ s[Len(s)] \in chars
    THEN rstrip(SubSeq(s, 1, Len(s) - 1), chars)
    ELSE s

strip(s) == rstrip(lstrip(s, WHITESPACE), WHITESPACE)

\* s.split(ch)
RECURSIVE split(_, _)
split(s, ch) ==
    IF index_of(s, ch) = 0 THEN <<s>>
    ELSE <<SubSeq(s, 1, index_of(s, ch) - 1)>> \o split(from(s, index_of(s, ch)), ch)

\* s.split(ch, 1)[1], for an s that holds ch
after_first(s, ch) == from(s, index_of(s, ch))

\* sep.join(parts)
RECURSIVE join(_, _)
join(parts, sep) ==
    IF parts = <<>> THEN <<>>
    ELSE IF Len(parts) = 1 THEN parts[1]
    ELSE parts[1] \o sep \o join(Tail(parts), sep)

\* str(n) for a natural number
RECURSIVE decimal(_)
decimal(n) ==
    IF n < 10 THEN <<DIGITS[n + 1]>>
    ELSE decimal(n \div 10) \o <<DIGITS[(n % 10) + 1]>>

\* the characters of each category name
category_text ==
    [cat \in Range(CATEGORIES) |->
        CASE cat = "dev" -> <<"d", "e", "v">>
          [] cat = "concept" -> <<"c", "o", "n", "c", "e", "p", "t">>
          [] cat = "tool" -> <<"t", "o", "o", "l">>
          [] cat = "workflow" -> <<"w", "o", "r", "k", "f", "l", "o", "w">>
          [] cat = "debug" -> <<"d", "e", "b", "u", "g">>
          [] cat = "general" -> <<"g", "e", "n", "e", "r", "a", "l">>]

\* "if x:" for an optional str: neither None nor empty
truthy(opt) == opt # None /\ opt[1] # <<>>

---------------------------------------------------------------------------
(* Random card, markdown export and import *)

\* from_files is None or a list of strs; "if from_files:" is false for both
\* None and the empty list
matches_files(card, from_files) ==
    /\ truthy(card.source)
    /\ \E k \in 1..Len(from_files) : contains(card.source[1], from_files[k])

random_pool(data, category, from_files) ==
    LET in_cat == IF category # None /\ category[1] # ""
                  THEN SelectSeq(data.cards, LAMBDA c : c.category = category[1])
                  ELSE data.cards
        filtered == IF from_files = None THEN <<>>
                    ELSE SelectSeq(in_cat, LAMBDA c : matches_files(c, from_files[1]))
    IN  IF filtered # <<>> THEN filtered ELSE in_cat

\* random.choice: any card of the pool
get_random_card(category, from_files) ==
    LET pool == random_pool(load_cards, category, from_files)
    IN  /\ \/ /\ pool = <<>>
              /\ ret' = [NoRet EXCEPT !.op = "get_random_card"]
           \/ \E k \in 1..Len(pool) :
                ret' = [NoRet EXCEPT !.op = "get_random_card", !.cards = <<pool[k]>>]
        /\ UNCHANGED <<file, now>>

\* strftime('%Y-%m-%d %H:%M')
strftime_minute(t) ==
    decimal(t \div TicksPerDay) \o <<" ">> \o decimal(t % TicksPerDay)

card_lines(card) ==
    <<(<<"#", "#", "#", " ", "Q", ":", " ">> \o card.question),
      (<<"*", "*", "A", ":", "*", "*", " ">> \o card.answer)>>
    \o (IF card.tags # <<>>
        THEN <<(<<"*", "T", "a", "g", "s", ":", " ">>
                \o join(card.tags, <<",", " ">>) \o <<"*">>)>>
        ELSE <<>>)
    \o (IF truthy(card.source)
        THEN <<(<<"*", "S", "o", "u", "r", "c", "e", ":", " ">>
                \o card.source[1] \o <<"*">>)>>
        ELSE <<>>)
    \o << <<>> >>

RECURSIVE lines_of_cards(_)
lines_of_cards(cards) ==
    IF cards = <<>> THEN <<>>
    ELSE card_lines(Head(cards)) \o lines_of_cards(Tail(cards))

\* the lines of the categories CATEGORIES[k..], each with its cards in
\* stored order; a card whose category is not in CATEGORIES has no section
RECURSIVE category_sections(_, _)
category_sections(cards, k) ==
    IF k > Len(CATEGORIES) THEN <<>>
    ELSE LET mine == SelectSeq(cards, LAMBDA c : c.category = CATEGORIES[k])
         IN  (IF mine = <<>> THEN <<>>
              ELSE <<(<<"#", "#", " ">> \o upper(category_text[CATEGORIES[k]])),
                     <<>> >>
                   \o lines_of_cards(mine))
             \o category_sections(cards, k + 1)

markdown_of(data, t) ==
    join(<< <<"#", " ", "F", "l", "a", "s", "h", "c", "a", "r", "d", " ",
              "E", "x", "p", "o", "r", "t">>,
            <<>>,
            (<<"*", "E", "x", "p", "o", "r", "t", "e", "d", ":", " ">>
                \o strftime_minute(t) \o <<"*">>),
            <<>> >>
         \o category_sections(data.cards, 1),
         <<"\n">>)

export_to_markdown ==
    /\ ret' = [NoRet EXCEPT !.op = "export_to_markdown",
                            !.text = markdown_of(load_cards, now)]
    /\ UNCHANGED <<file, now>>

\* The parser's variables; out collects the arguments of its add_card calls.
parser_start ==
    [category |-> "general", question |-> None, answer |-> None,
     tags |-> <<>>, source |-> None, out |-> <<>>]

\* "if current_question and current_answer: add_card(...)"
parser_flush(st) ==
    IF truthy(st.question) /\ truthy(st.answer)
    THEN [st EXCEPT !.out = Append(@, [question |-> st.question[1],
                                       answer |-> st.answer[1],
                                       category |-> st.category,
                                       tags |-> st.tags,
                                       source |-> st.source])]
    ELSE st

parser_line(st, raw) ==
    LET line == strip(raw)
    IN  IF startswith(line, <<"#", "#", " ">>)
        THEN LET cat == lower(strip(from(line, 3)))
                 named == {c \in Range(CATEGORIES) : category_text[c] = cat}
             IN  IF named = {} THEN st
                 ELSE [st EXCEPT !.category = CHOOSE c \in named : TRUE]
        ELSE IF \/ startswith(line, <<"#", "#", "#", " ", "Q", ":">>)
                \/ startswith(line, <<"#", "#", "#", " ", "Q", " ", ":">>)
        THEN [parser_flush(st) EXCEPT
                 !.question = Some(strip(after_first(line, ":"))),
                 !.answer = None, !.tags = <<>>, !.source = None]
        ELSE IF \/ startswith(line, <<"*", "*", "A", ":", "*", "*">>)
                \/ startswith(line, <<"*", "*", "A", " ", ":", "*", "*">>)
        THEN [st EXCEPT !.answer = Some(strip(after_first(line, ":")))]
        ELSE IF startswith(line, <<"*", "T", "a", "g", "s", ":">>)
        THEN LET parts == split(strip(rstrip(from(line, 6), {"*"})), ",")
             IN  [st EXCEPT !.tags = [k \in 1..Len(parts) |-> strip(parts[k])]]
        ELSE IF startswith(line, <<"*", "S", "o", "u", "r", "c", "e", ":">>)
        THEN [st EXCEPT !.source = Some(strip(rstrip(from(line, 8), {"*"})))]
        ELSE st

RECURSIVE parser_run(_, _)
parser_run(st, lines) ==
    IF lines = <<>> THEN parser_flush(st)
    ELSE parser_run(parser_line(st, Head(lines)), Tail(lines))

\* the add_card calls an import of this text makes, in order
parsed_cards(text) == parser_run(parser_start, split(text, "\n")).out

\* the collection after those add_card calls; rs[k] is the random number of
\* the k-th call, and the whole import runs within one tick of the clock
RECURSIVE with_added(_, _, _)
with_added(data, parsed, rs) ==
    IF parsed = <<>> THEN data
    ELSE with_added(
            [data EXCEPT !.cards = Append(@,
                new_card(Head(rs), Head(parsed).question, Head(parsed).answer,
                         Head(parsed).category, Head(parsed).tags,
                         Head(parsed).source))],
            Tail(parsed), Tail(rs))

\* import into the store whose file is f; nothing is saved when no card is
\* found in the text
import_from_markdown(f, text, rs) ==
    /\ file' = IF parsed_cards(text) = <<>> THEN f
               ELSE <<with_added(data_of(f), parsed_cards(text), rs)>>
    /\ ret' = [NoRet EXCEPT !.op = "import_from_markdown", !.text = text,
                            !.saved = (parsed_cards(text) # <<>>)]
    /\ UNCHANGED now

---------------------------------------------------------------------------
(* The interactive quiz, one prompt at a time.  proc holds the list the    *)
(* quiz was started with, the position of the card on show, and which      *)
(* input it is blocked on.                                                 *)

\* main (--quiz): the due cards, filtered by category, then the first card
interactive_quiz(category) ==
    LET due == due_cards(load_cards, now, None)
        cards == IF category # None /\ category[1] # ""
                 THEN SelectSeq(due, LAMBDA c : c.category = category[1])
                 ELSE due
    IN  /\ proc.pc = "idle"
        /\ proc' = IF cards = <<>> THEN Idle
                   ELSE [Idle EXCEPT !.pc = "reveal", !.cards = cards, !.i = 1]
        /\ ret' = [NoRet EXCEPT !.op = "interactive_quiz", !.cards = cards]
        /\ UNCHANGED <<file, now>>

\* input("Press Enter to reveal answer...") returns
quiz_reveal ==
    /\ proc.pc = "reveal"
    /\ proc' = [proc EXCEPT !.pc = "rating"]
    /\ ret' = [NoRet EXCEPT !.op = "input"]
    /\ UNCHANGED <<file, now>>

\* KeyboardInterrupt while blocked in input("Press Enter..."): nothing
\* catches it there and the process ends
quiz_killed ==
    /\ proc.pc = "reveal"
    /\ proc' = Idle
    /\ ret' = [NoRet EXCEPT !.op = "interactive_quiz", !.error = "killed",
                            !.cards = <<proc.cards[proc.i]>>]
    /\ UNCHANGED <<file, now>>

\* input("Rating: ") returns text that is not a number (None) or a number:
\* a number in 0..5 is passed to review_card, anything else is asked again
quiz_rating(answer) ==
    /\ proc.pc = "rating"
    /\ IF answer # None /\ 0 <= answer[1] /\ answer[1] <= 5
       THEN /\ review_card(proc.cards[proc.i].id, answer[1])
            /\ proc' = IF ret'.error # "" \/ proc.i = Len(proc.cards) THEN Idle
                       ELSE [proc EXCEPT !.pc = "reveal", !.i = @ + 1]
       ELSE /\ ret' = [NoRet EXCEPT !.op = "input"]
            /\ UNCHANGED <<file, now, proc>>

\* the interruption is taken for a rating of 0 and saved
quiz_interrupt_rates_zero ==
    LET data == load_cards
        k == find_card(data.cards, proc.cards[proc.i].id)
    IN  /\ proc.pc = "rating"
        /\ IF k = 0 THEN UNCHANGED file
           ELSE save_cards([cards |-> [data.cards EXCEPT ![k] =
                                          update_card(data.cards[k], 0, 1, now)],
                            stats |-> update_stats(data.stats, now)])
        /\ proc' = Idle
        /\ ret' = [NoRet EXCEPT !.op = "interactive_quiz",
                                !.error = "KeyboardInterrupt",
                                !.cards = <<proc.cards[proc.i]>>]
        /\ UNCHANGED now

\* KeyboardInterrupt while blocked in input("Rating: "): the quiz returns
quiz_interrupt ==
    /\ proc.pc = "rating"
    /\ proc' = Idle
    /\ ret' = [NoRet EXCEPT !.op = "interactive_quiz",
                            !.error = "KeyboardInterrupt",
                            !.cards = <<proc.cards[proc.i]>>]
    /\ UNCHANGED <<file, now>>

---------------------------------------------------------------------------
(* A writing call, one step at a time.  save_cards opens the file with     *)
(* mode "w", which empties it, and json.dump then writes the text piece by *)
(* piece.  A file that holds only the first k cards of data's text is      *)
(* <<data, k>>; json.load raises JSONDecodeError on it.                    *)

torn(f) == Len(f) = 2

may_start == proc.pc \in {"idle", "crashed"}

\* load_cards of a call that only reads
load_only ==
    /\ may_start
    /\ ret' = IF torn(file)
              THEN [NoRet EXCEPT !.op = "load_cards", !.error = "JSONDecodeError"]
              ELSE [NoRet EXCEPT !.op = "load_cards", !.cards = load_cards.cards,
                                 !.stats_before = Some(load_cards.stats)]
    /\ UNCHANGED <<file, now, proc>>

\* a call has loaded the data and changed it in memory
begin_save(data) ==
    proc' = [Idle EXCEPT !.pc = "loaded", !.data = Some(data), !.old = file]

load_failed(op) ==
    /\ ret' = [NoRet EXCEPT !.op = op, !.error = "JSONDecodeError"]
    /\ proc' = Idle

\* add_card up to its call of save_cards
begin_add_card(r, question, answer, category, tags, source) ==
    /\ may_start
    /\ IF torn(file) THEN load_failed("add_card")
       ELSE /\ begin_save([load_cards EXCEPT !.cards = Append(@,
                   new_card(r, question, answer, category, tags, source))])
            /\ ret' = NoRet
    /\ UNCHANGED <<file, now>>

\* review_card up to its call of save_cards
begin_review_card(card_id, quality) ==
    /\ may_start
    /\ IF torn(file) THEN load_failed("review_card")
       ELSE LET data == load_cards
                i == find_card(data.cards, card_id)
            IN  IF i = 0
                THEN /\ ret' = [NoRet EXCEPT !.op = "review_card", !.id = card_id,
                                  !.quality = quality, !.error = "NotFound"]
                     /\ proc' = Idle
                ELSE /\ \E iv \in sm2_interval(data.cards[i], quality) :
                          begin_save(
                            [cards |-> [data.cards EXCEPT ![i] =
                                          update_card(data.cards[i], quality, iv, now)],
                             stats |-> update_stats(data.stats, now)])
                     /\ ret' = NoRet
    /\ UNCHANGED <<file, now>>

\* open(FLASHCARDS_FILE, "w")
save_open ==
    /\ proc.pc = "loaded"
    /\ file' = <<proc.data[1], 0>>
    /\ proc' = [proc EXCEPT !.pc = "writing"]
    /\ ret' = NoRet
    /\ UNCHANGED now

\* json.dump has written one more card
save_write ==
    /\ proc.pc = "writing"
    /\ file[2] < Len(file[1].cards)
    /\ file' = <<file[1], file[2] + 1>>
    /\ ret' = NoRet
    /\ UNCHANGED <<now, proc>>

\* the file is written to the end and closed
save_close ==
    /\ proc.pc = "writing"
    /\ file[2] = Len(file[1].cards)
    /\ file' = <<file[1]>>
    /\ proc' = Idle
    /\ ret' = [NoRet EXCEPT !.op = "save_cards", !.saved = TRUE]
    /\ UNCHANGED now

\* the process is killed, or the machine stops; proc keeps what the call
\* had loaded and was writing
crash ==
    /\ proc.pc \in {"loaded", "writing"}
    /\ proc' = [proc EXCEPT !.pc = "crashed"]
    /\ ret' = [NoRet EXCEPT !.op = "crash"]
    /\ UNCHANGED <<file, now>>

---------------------------------------------------------------------------
(* The clock *)

(* Two processes on the same file.  Each has its own file object: open   *)
(* with mode "w" empties the file, json.dump fills the object's buffer,    *)
(* and leaving the with block writes the buffered text at offset 0 of      *)
(* whatever the file then holds.  Lengths are counted in cards.  A file    *)
(* whose text does not parse is <<data, k>>: k is its length, and it       *)
(* starts with the text of data as far as that goes.                       *)

text_len(data) == Len(data.cards)

file_len(f) ==
    IF f = <<>> THEN 0
    ELSE IF torn(f) THEN f[2]
    ELSE text_len(f[1])

\* process p has loaded the data and changed it in memory
process_loaded(p, data) ==
    proc' = [proc EXCEPT ![p] = [Idle EXCEPT !.pc = "loaded",
                                             !.data = Some(data), !.old = file]]

\* add_card in process p, up to its call of save_cards
process_add_card(p, r, question, answer, category, tags, source) ==
    /\ proc[p].pc = "idle"
    /\ IF torn(file)
       THEN /\ ret' = [NoRet EXCEPT !.op = "add_card", !.error = "JSONDecodeError"]
            /\ UNCHANGED proc
       ELSE /\ process_loaded(p, [load_cards EXCEPT !.cards = Append(@,
                   new_card(r, question, answer, category, tags, source))])
            /\ ret' = [NoRet EXCEPT !.op = "add_card"]
    /\ UNCHANGED <<file, now>>

\* review_card in process p, up to its call of save_cards
process_review_card(p, card_id, quality) ==
    /\ proc[p].pc = "idle"
    /\ IF torn(file)
       THEN /\ ret' = [NoRet EXCEPT !.op = "review_card", !.id = card_id,
                         !.quality = quality, !.error = "JSONDecodeError"]
            /\ UNCHANGED proc
       ELSE LET data == load_cards
                i == find_card(data.cards, card_id)
            IN  IF i = 0
                THEN /\ ret' = [NoRet EXCEPT !.op = "review_card", !.id = card_id,
                                  !.quality = quality, !.error = "NotFound"]
                     /\ UNCHANGED proc
                ELSE /\ \E iv \in sm2_interval(data.cards[i], quality) :
                          process_loaded(p,
                            [cards |-> [data.cards EXCEPT ![i] =
                                          update_card(data.cards[i], quality, iv, now)],
                             stats |-> update_stats(data.stats, now)])
                     /\ ret' = [NoRet EXCEPT !.op = "review_card", !.id = card_id,
                                  !.quality = quality]
    /\ UNCHANGED <<file, now>>

\* open(FLASHCARDS_FILE, "w") and json.dump in process p
process_open(p) ==
    /\ proc[p].pc = "loaded"
    /\ file' = <<proc[p].data[1], 0>>
    /\ proc' = [proc EXCEPT ![p].pc = "writing"]
    /\ ret' = [NoRet EXCEPT !.op = "open"]
    /\ UNCHANGED now

\* the end of the with block in process p: the text goes out, and what the
\* file holds beyond its end stays
process_close(p) ==
    /\ proc[p].pc = "writing"
    /\ file' = IF file_len(file) > text_len(proc[p].data[1])
               THEN <<proc[p].data[1], file_len(file)>>
               ELSE <<proc[p].data[1]>>
    /\ proc' = [proc EXCEPT ![p] = Idle]
    /\ ret' = [NoRet EXCEPT !.op = "save_cards", !.saved = TRUE]
    /\ UNCHANGED now

\* process p is killed between its load and its save
process_crash(p) ==
    /\ proc[p].pc = "loaded"
    /\ proc' = [proc EXCEPT ![p] = Idle]
    /\ ret' = [NoRet EXCEPT !.op = "crash"]
    /\ UNCHANGED <<file, now>>

Tick(maxTime) ==
    /\ now < maxTime
    /\ now' = now + 1
    /\ ret' = NoRet
    /\ UNCHANGED <<file, proc, log>>

---------------------------------------------------------------------------
(* Inputs *)

\* outcomes of random.randint(100, 999)
Rands == {100}

PresentIds == {load_cards.cards[i].id : i \in 1..Len(load_cards.cards)}

\* a string generate_id never returns: randint(100, 999) is at least 100
NoSuchId == <<0, 0>>

\* ids a caller may pass: the id of every card in the collection, and one id
\* that no card has
CardIds == PresentIds \cup {NoSuchId}

Qualities == 0..5

\* ratings outside the documented scale as well
AnyQualities == -1..6

\* one failing and one passing rating, for the specifications whose
\* properties do not turn on the rating
GapQualities == {2, 4}

CategoryInputs == {"general"}

AnyCategoryInputs == CategoryInputs \cup {"bogus"}

Limits == {None, Some(0), Some(1), Some(2)}

\* the texts of the cards of the specifications that read or write text
Questions == {<<"q">>}

Answers == {<<"a">>}

TagLists == {<<>>, << <<"t">>, <<"u">> >>}

Sources == {None, Some(<<"s", "/", "x">>)}

TextCategories == {"dev", "general"}

\* --category of the listing and random-card commands
CategoryFilters == {None, Some(""), Some("dev")}

\* what the user types at the rating prompt: not a number, or a number
RatingInputs == {None, Some(-1), Some(2), Some(4), Some(6)}

\* --category of the quiz command
QuizFilters == {None, Some("dev")}

\* --random-from-files
FileLists == {None, Some(<<>>), Some(<< <<"x">> >>), Some(<< <<"y">> >>)}

---------------------------------------------------------------------------
(* Specifications *)

Init ==
    /\ file = <<>>
    /\ now = 0
    /\ ret = NoRet
    /\ proc = Idle
    /\ log = <<>>

AddCard(maxCards, categories) ==
    /\ Len(load_cards.cards) < maxCards
    /\ \E r \in Rands, cat \in categories :
          add_card(r, "q", "a", cat, <<>>, None)
    /\ UNCHANGED <<proc, log>>

ReviewCard(maxReviews, qualities) ==
    /\ load_cards.stats.total_reviews < maxReviews
    /\ \E id \in CardIds, q \in qualities : review_card(id, q)
    /\ UNCHANGED <<proc, log>>

GetDueCards ==
    /\ \E limit \in Limits : get_due_cards(limit)
    /\ UNCHANGED <<proc, log>>

\* the scheduler: calls whose arguments are within the documented domains
Next ==
    \/ AddCard(MaxCards, CategoryInputs)
    \/ ReviewCard(MaxReviews, Qualities)
    \/ Tick(MaxTime)

Spec == Init /\ [][Next]_vars

\* the scheduler, called with any argument the functions accept
NextAny ==
    \/ AddCard(MaxCards, AnyCategoryInputs)
    \/ ReviewCard(MaxReviews, AnyQualities)
    \/ Tick(MaxTime)

SpecAny == Init /\ [][NextAny]_vars

\* reviews spread over several days
NextStreak ==
    \/ AddCard(StreakMaxCards, CategoryInputs)
    \/ ReviewCard(StreakMaxReviews, Qualities)
    \/ Tick(StreakMaxTime)

SpecStreak == Init /\ [][NextStreak]_vars

\* due selection over the collections the scheduler builds
NextDue ==
    \/ AddCard(DueMaxCards, CategoryInputs)
    \/ ReviewCard(DueMaxReviews, Qualities)
    \/ GetDueCards
    \/ Tick(DueMaxTime)

SpecDue == Init /\ [][NextDue]_vars


\* one card reviewed over several days
NextGap ==
    \/ AddCard(GapMaxCards, CategoryInputs)
    \/ ReviewCard(GapMaxReviews, GapQualities)
    \/ Tick(GapMaxTime)

SpecGap == Init /\ [][NextGap]_vars

\* a review that also enters the log: the position of the card it updated
\* and the rating
ReviewCardLogged(maxReviews, qualities) ==
    /\ load_cards.stats.total_reviews < maxReviews
    /\ \E id \in CardIds, q \in qualities :
          /\ review_card(id, q)
          /\ log' = IF find_card(load_cards.cards, id) = 0 THEN log
                    ELSE Append(log, <<find_card(load_cards.cards, id), q>>)
    /\ UNCHANGED proc

GetStats ==
    /\ get_stats
    /\ UNCHANGED <<proc, log>>

\* the reviews of each card remembered
NextHist ==
    \/ AddCard(HistMaxCards, CategoryInputs)
    \/ ReviewCardLogged(HistMaxReviews, Qualities)
    \/ GetStats
    \/ Tick(HistMaxTime)

SpecHist == Init /\ [][NextHist]_vars

\* add_card with the card's texts given character by character
AddCardWith(maxCards, categories, taglists) ==
    /\ Len(load_cards.cards) < maxCards
    /\ \E r \in Rands, question \in Questions, answer \in Answers,
          cat \in categories, tags \in taglists, source \in Sources :
          add_card(r, question, answer, cat, tags, source)
    /\ UNCHANGED <<proc, log>>

Export ==
    /\ export_to_markdown
    /\ UNCHANGED <<proc, log>>

\* the cards hold the texts add_card was given
AsAdded(cards) ==
    \A i \in 1..Len(cards) :
        cards[i].question \in Questions /\ cards[i].answer \in Answers

\* the text just exported, of a collection made by add_card, is imported
\* where no store exists yet
ImportFresh ==
    /\ ret.op = "export_to_markdown"
    /\ AsAdded(load_cards.cards)
    /\ \E rs \in [1..Len(parsed_cards(ret.text)) -> Rands] :
          import_from_markdown(<<>>, ret.text, rs)
    /\ UNCHANGED <<proc, log>>

\* a collection is built, exported, and imported into an empty store
NextMd ==
    \/ AddCardWith(MdMaxCards, TextCategories, TagLists)
    \/ Export
    \/ ImportFresh

SpecMd == Init /\ [][NextMd]_vars

DeleteCard ==
    /\ \E id \in CardIds : delete_card(id)
    /\ UNCHANGED <<proc, log>>

\* cards are added, reviewed and deleted
NextDel ==
    \/ AddCard(DelMaxCards, CategoryInputs)
    \/ ReviewCard(DelMaxReviews, Qualities)
    \/ DeleteCard
    \/ Tick(DelMaxTime)

SpecDel == Init /\ [][NextDel]_vars

ListCards ==
    /\ \E category \in CategoryFilters : list_cards(category)
    /\ UNCHANGED <<proc, log>>

GetRandomCard ==
    /\ \E category \in CategoryFilters, from_files \in FileLists :
          get_random_card(category, from_files)
    /\ UNCHANGED <<proc, log>>

\* every command that reads or writes the store, but the import
NextOps ==
    \/ AddCardWith(OpsMaxCards, TextCategories, {<<>>})
    \/ ReviewCard(OpsMaxReviews, GapQualities)
    \/ DeleteCard
    \/ GetDueCards
    \/ GetStats
    \/ ListCards
    \/ GetRandomCard
    \/ Export
    \/ Tick(OpsMaxTime)

SpecOps == Init /\ [][NextOps]_vars

\* a card is added from the terminal the quiz runs in, between quizzes
QuizAddCard ==
    /\ proc.pc = "idle"
    /\ AddCard(QuizMaxCards, CategoryInputs)

Quiz ==
    /\ \E category \in QuizFilters : interactive_quiz(category)
    /\ UNCHANGED log

QuizReveal ==
    /\ quiz_reveal
    /\ UNCHANGED log

QuizRating ==
    /\ load_cards.stats.total_reviews < QuizMaxReviews
    /\ \E answer \in RatingInputs : quiz_rating(answer)
    /\ UNCHANGED log

QuizInterrupt ==
    /\ quiz_interrupt
    /\ UNCHANGED log

QuizKilled ==
    /\ quiz_killed
    /\ UNCHANGED log

\* cards are added, then quizzed prompt by prompt
NextQuiz ==
    \/ QuizAddCard
    \/ Quiz
    \/ QuizReveal
    \/ QuizRating
    \/ QuizInterrupt
    \/ QuizKilled
    \/ Tick(QuizMaxTime)

SpecQuiz == Init /\ [][NextQuiz]_vars

LoadOnly ==
    /\ load_only
    /\ UNCHANGED log

BeginAddCard ==
    /\ ~torn(file) => Len(load_cards.cards) < CrashMaxCards
    /\ \E r \in Rands : begin_add_card(r, "q", "a", "general", <<>>, None)
    /\ UNCHANGED log

BeginReviewCard ==
    /\ ~torn(file) => load_cards.stats.total_reviews < CrashMaxReviews
    /\ \E id \in IF torn(file) THEN {NoSuchId} ELSE CardIds, q \in GapQualities :
          begin_review_card(id, q)
    /\ UNCHANGED log

SaveOpen ==
    /\ save_open
    /\ UNCHANGED log

SaveWrite ==
    /\ save_write
    /\ UNCHANGED log

SaveClose ==
    /\ save_close
    /\ UNCHANGED log

Crash ==
    /\ crash
    /\ UNCHANGED log

\* writing calls that may be cut short at any step, and calls that read
NextCrash ==
    \/ BeginAddCard
    \/ BeginReviewCard
    \/ SaveOpen
    \/ SaveWrite
    \/ SaveClose
    \/ Crash
    \/ LoadOnly
    \/ Tick(CrashMaxTime)

SpecCrash == Init /\ [][NextCrash]_vars

\* two processes, none in a call
InitTwo ==
    /\ file = <<>>
    /\ now = 0
    /\ ret = NoRet
    /\ proc = <<Idle, Idle>>
    /\ log = <<>>

Processes == {1, 2}

ProcessAddCard ==
    /\ ~torn(file) => Len(load_cards.cards) < TwoMaxCards
    /\ \E p \in Processes, r \in Rands :
          process_add_card(p, r, "q", "a", "general", <<>>, None)
    /\ UNCHANGED log

ProcessReviewCard ==
    /\ ~torn(file) => load_cards.stats.total_reviews < TwoMaxReviews
    /\ \E p \in Processes, q \in GapQualities,
          id \in IF torn(file) THEN {NoSuchId} ELSE PresentIds :
          process_review_card(p, id, q)
    /\ UNCHANGED log

ProcessOpen ==
    /\ \E p \in Processes : process_open(p)
    /\ UNCHANGED log

ProcessClose ==
    /\ \E p \in Processes : process_close(p)
    /\ UNCHANGED log

ProcessCrash ==
    /\ \E p \in Processes : process_crash(p)
    /\ UNCHANGED log

\* two invocations whose loads and saves interleave freely
NextTwo ==
    \/ ProcessAddCard
    \/ ProcessReviewCard
    \/ ProcessOpen
    \/ ProcessClose
    \/ ProcessCrash
    \/ Tick(TwoMaxTime)

SpecTwo == InitTwo /\ [][NextTwo]_vars

\* cards reviewed often enough to be mastered, and the statistics read
NextStats ==
    \/ AddCard(StatsMaxCards, CategoryInputs)
    \/ ReviewCard(StatsMaxReviews, GapQualities)
    \/ GetStats
    \/ Tick(StatsMaxTime)

SpecStats == Init /\ [][NextStats]_vars

---------------------------------------------------------------------------
(* Properties.  A step that makes a call leaves the call in ret', so a     *)
(* property of a call relates file (before the call) to file' (after it).  *)

cards_of(f) == data_of(f).cards

stats_of(f) == data_of(f).stats

Reviewed == ret'.op = "review_card" /\ ret'.error = ""

\* the card a completed review loaded, and the same card as persisted
OldCard == cards_of(file)[find_card(cards_of(file), ret'.id)]

NewCard == cards_of(file')[find_card(cards_of(file), ret'.id)]

\* C1: in every state reachable by add_card and review_card calls with
\* quality in 0..5, every card has ease_factor >= 1.3, interval >= 0 and
\* repetitions >= 0.
C1_FloorInvariants ==
    \A i \in 1..Len(cards_of(file)) :
        /\ cards_of(file)[i].ease_factor >= 130
        /\ cards_of(file)[i].interval >= 0
        /\ cards_of(file)[i].repetitions >= 0

\* a review whose adjustment would have taken the ease below 1.3
C1_Witness ==
    /\ ret.op = "review_card" /\ ret.error = ""
    /\ ret.before[1].ease_factor + ease_delta(ret.quality) < 130
    /\ ret.cards[1].ease_factor = 130

\* C2: review_card with a quality outside 0..5 fails with an error and
\* leaves the persisted cards and stats as they were.
C2_InvalidRatingRejected ==
    [][(ret'.op = "review_card" /\ ret'.quality \notin 0..5)
         => (ret'.error # "" /\ file' = file)]_vars

\* C3: for every prior card state, a review with quality < 3 leaves the
\* card with repetitions = 0 and interval = 1.
C3_FailureResets ==
    [][(Reviewed /\ ret'.quality < 3)
         => /\ NewCard.repetitions = 0
            /\ NewCard.interval = 1
            /\ ret'.cards = <<NewCard>>]_vars

\* a failed review of a card that had two successes and interval 6
C3_Witness ==
    /\ ret.op = "review_card" /\ ret.error = "" /\ ret.quality < 3
    /\ ret.before[1].repetitions = 2
    /\ ret.before[1].interval = 6
    /\ ret.cards[1].repetitions = 0

\* C4: a review with quality >= 3 sets interval to 1 when the prior
\* repetitions is 0, to 6 when it is 1, and otherwise to the integer nearest
\* to prior interval * prior ease_factor (the ease held before this review's
\* ease update); in all three cases repetitions increases by exactly 1.
C4_SuccessInterval ==
    [][(Reviewed /\ ret'.quality >= 3)
         => /\ NewCard.repetitions = OldCard.repetitions + 1
            /\ (OldCard.repetitions = 0 => NewCard.interval = 1)
            /\ (OldCard.repetitions = 1 => NewCard.interval = 6)
            /\ (OldCard.repetitions >= 2 =>
                 LET d == 100 * NewCard.interval
                          - OldCard.interval * OldCard.ease_factor
                 IN  -50 <= d /\ d <= 50)]_vars

\* a third success in a row, whose ease update changes the ease
C4_Witness ==
    /\ ret.op = "review_card" /\ ret.error = "" /\ ret.quality >= 3
    /\ ret.before[1].repetitions = 2
    /\ ret.cards[1].repetitions = 3
    /\ ret.cards[1].interval > 6
    /\ ret.cards[1].ease_factor # ret.before[1].ease_factor

\* C5: review_card with an id that no card has fails with NotFound, changes
\* no card and no stat, and does not write the store.
C5_UnknownIdNotFound ==
    [][(ret'.op = "review_card" /\ ret'.id \notin PresentIds)
         => /\ ret'.error = "NotFound"
            /\ ~ret'.saved
            /\ file' = file]_vars

\* an unknown id given to a collection that holds a reviewed card
C5_Witness ==
    /\ ret.op = "review_card" /\ ret.error = "NotFound"
    /\ ret.id \notin PresentIds
    /\ Len(cards_of(file)) >= 1
    /\ stats_of(file).total_reviews >= 1

\* C6: add_card with a category outside the enumeration fails with an error
\* and creates no card.
C6_InvalidCategoryRejected ==
    [][(ret'.op = "add_card" /\ ret'.category \notin Range(CATEGORIES))
         => (ret'.error # "" /\ file' = file)]_vars

\* The due list stated from the collection: the cards whose next_review, as
\* a time, is at most t, each at the position given by the number of due
\* cards that come before it (earlier next_review, or the same next_review
\* and earlier in the collection).
DueIndexes(cards, t) ==
    {i \in 1..Len(cards) : fromisoformat(cards[i].next_review) <= t}

ComesBefore(cards, j, i) ==
    \/ fromisoformat(cards[j].next_review) < fromisoformat(cards[i].next_review)
    \/ /\ fromisoformat(cards[j].next_review) = fromisoformat(cards[i].next_review)
       /\ j < i

ExpectedDue(cards, t) ==
    LET D == DueIndexes(cards, t)
        rank(i) == Cardinality({j \in D : ComesBefore(cards, j, i)}) + 1
    IN  [k \in 1..Cardinality(D) |-> cards[CHOOSE i \in D : rank(i) = k]]

\* C7: due selection without a limit returns exactly the cards with
\* next_review <= now, ascending by next_review, cards of equal next_review
\* in collection order.
C7_DueSelection ==
    (ret.op = "get_due_cards" /\ ret.limit = None)
        => ret.cards = ExpectedDue(cards_of(file), now)

\* two due cards returned in the reverse of their collection order, the
\* later of them due exactly now
C7_Witness ==
    /\ ret.op = "get_due_cards" /\ ret.limit = None
    /\ Len(cards_of(file)) = 2
    /\ ret.cards = <<cards_of(file)[2], cards_of(file)[1]>>
    /\ fromisoformat(cards_of(file)[1].next_review) = now

\* C8: with a limit >= 0 the result is the first `limit` cards of the
\* ordered due list, of length min(limit, number of due cards).
C8_LimitTruncates ==
    (ret.op = "get_due_cards" /\ ret.limit # None /\ ret.limit[1] >= 0)
        => LET due == ExpectedDue(cards_of(file), now)
               n == IF ret.limit[1] < Len(due) THEN ret.limit[1] ELSE Len(due)
           IN  ret.cards = SubSeq(due, 1, n)

\* C9: a review on a day on which a review was already recorded leaves
\* streak_days unchanged.
C9_SameDayKeepsStreak ==
    [][(Reviewed /\ stats_of(file).last_review_date = Some(strftime_date(now)))
         => stats_of(file').streak_days = stats_of(file).streak_days]_vars

\* a second review on the day of the first
C9_Witness ==
    /\ ret.op = "review_card" /\ ret.error = ""
    /\ ret.stats_before[1].last_review_date = Some(strftime_date(now))
    /\ ret.stats_before[1].streak_days = 1
    /\ stats_of(file).total_reviews = 2

C11_GapResetsStreak ==
    [][(/\ Reviewed
        /\ \/ stats_of(file).last_review_date = None
           \/ /\ stats_of(file).last_review_date # None
              /\ stats_of(file).last_review_date[1] <= strftime_date(now) - 2)
         => /\ stats_of(file').streak_days = 1
            /\ stats_of(file').last_review_date = Some(strftime_date(now))]_vars

\* a streak of two days has been cut back to 1 by a review after a gap
C11_Witness ==
    /\ ret.op = "review_card" /\ ret.error = ""
    /\ ret.stats_before # None
    /\ ret.stats_before[1].streak_days = 2
    /\ ret.stats_before[1].last_review_date # None
    /\ ret.stats_before[1].last_review_date[1] <= strftime_date(now) - 2
    /\ stats_of(file).streak_days = 1
    /\ stats_of(file).last_review_date = Some(strftime_date(now))

\* C13: no two cards of the collection ever share an id, adds made within
\* the same second included.
C13_IdsUnique ==
    \A i, j \in 1..Len(cards_of(file)) :
        cards_of(file)[i].id = cards_of(file)[j].id => i = j

\* C14 as stated: ease_factor stays under a bound that does not depend on
\* how many reviews are made: the highest ease that MaxReviews - 1 reviews
\* can produce is not exceeded by MaxReviews reviews.
C14_EaseHasFixedBound ==
    \A i \in 1..Len(cards_of(file)) :
        cards_of(file)[i].ease_factor <= DEFAULT_EASE + 10 * (MaxReviews - 1)

\* C14, amended: ease_factor has no ceiling.  A review of quality 5 raises
\* it by exactly 0.1 whatever it was, so a card reviewed n times has an ease
\* of at most 2.5 + 0.1 * n, and n reviews of quality 5 reach it.
C14_EaseRisesPerReview ==
    /\ \A i \in 1..Len(cards_of(file)) :
          cards_of(file)[i].ease_factor
              <= DEFAULT_EASE + 10 * cards_of(file)[i].total_reviews
    /\ (ret.op = "review_card" /\ ret.error = "" /\ ret.quality = 5)
          => ret.cards[1].ease_factor = ret.before[1].ease_factor + 10

\* every allowed review was of quality 5 on one card: its ease is 2.5 plus
\* 0.1 for each
C14_Witness ==
    /\ ret.op = "review_card" /\ ret.error = "" /\ ret.quality = 5
    /\ ret.cards[1].total_reviews = MaxReviews
    /\ ret.cards[1].ease_factor = DEFAULT_EASE + 10 * MaxReviews
    /\ ret.before[1].ease_factor = DEFAULT_EASE + 10 * (MaxReviews - 1)

\* the ratings card i has received, oldest first
qualities_of(i) ==
    LET mine == SelectSeq(log, LAMBDA e : e[1] = i)
    IN  [k \in 1..Len(mine) |-> mine[k][2]]

\* the number of ratings >= 3 at the end of a sequence of ratings
RECURSIVE trailing_successes(_)
trailing_successes(qs) ==
    IF qs = <<>> \/ qs[Len(qs)] < 3 THEN 0
    ELSE 1 + trailing_successes(SubSeq(qs, 1, Len(qs) - 1))

\* C15: repetitions is the number of consecutive successful reviews
\* (quality >= 3) the card has had since its last failed review, or since
\* it was created when it never failed.
C15_RepetitionsCountSuccesses ==
    \A i \in 1..Len(cards_of(file)) :
        cards_of(file)[i].repetitions = trailing_successes(qualities_of(i))

\* a card that passed, failed and passed again counts one success
C15_Witness ==
    \E i \in 1..Len(cards_of(file)) :
        /\ Len(qualities_of(i)) = 3
        /\ qualities_of(i)[1] >= 3
        /\ qualities_of(i)[2] < 3
        /\ qualities_of(i)[3] >= 3
        /\ cards_of(file)[i].repetitions = 1

\* card i has had no review of quality >= 3
never_passed(i) == \A k \in 1..Len(qualities_of(i)) : qualities_of(i)[k] < 3

\* C16 as stated: a card that was never reviewed with quality >= 3 has
\* interval 0 and is counted in the new bucket of get_stats.
C16_IntervalZeroUntilSuccess ==
    \A i \in 1..Len(cards_of(file)) :
        never_passed(i) =>
            /\ cards_of(file)[i].interval = 0
            /\ i \in new(cards_of(file))

\* C16, amended: a card has interval 0, and is counted as new, until its
\* first review of any quality; once reviewed, passed or failed, its
\* interval is at least 1 and it is no longer counted as new.
C16_IntervalZeroUntilReviewed ==
    /\ \A i \in 1..Len(cards_of(file)) :
          IF qualities_of(i) = <<>>
          THEN cards_of(file)[i].interval = 0 /\ i \in new(cards_of(file))
          ELSE cards_of(file)[i].interval >= 1 /\ i \notin new(cards_of(file))
    /\ ret.op = "get_stats" =>
          ret.stats[1].new =
              Cardinality({i \in 1..Len(cards_of(file)) : qualities_of(i) = <<>>})

\* get_stats counts a card whose only reviews failed as learning, not new
C16_Witness ==
    /\ ret.op = "get_stats"
    /\ ret.stats[1].new = 0
    /\ ret.stats[1].learning = 1
    /\ \E i \in 1..Len(cards_of(file)) :
          /\ qualities_of(i) # <<>>
          /\ never_passed(i)
          /\ cards_of(file)[i].interval = 1

\* what import and export are to preserve of a card
content_of(card) ==
    <<card.question, card.answer, card.category, card.tags, card.source>>

\* the multiset of the contents of a sequence of cards
contents(cards) ==
    [t \in {content_of(cards[i]) : i \in 1..Len(cards)} |->
        Cardinality({i \in 1..Len(cards) : content_of(cards[i]) = t})]

\* C18: exporting a non-empty collection built by add_card and importing
\* the text into an empty store gives a store with the same multiset of
\* (question, answer, category, tags, source).
C18_ExportImportRoundTrip ==
    [][(/\ ret.op = "export_to_markdown"
        /\ ret'.op = "import_from_markdown"
        /\ cards_of(file) # <<>>)
         => contents(cards_of(file')) = contents(cards_of(file))]_vars

\* the sum of total_reviews over a sequence of cards
RECURSIVE sum_of_reviews(_)
sum_of_reviews(cards) ==
    IF cards = <<>> THEN 0
    ELSE Head(cards).total_reviews + sum_of_reviews(Tail(cards))

\* by how much the collection's counter exceeds the sum over its cards
surplus(f) == stats_of(f).total_reviews - sum_of_reviews(cards_of(f))

\* C17 as stated: the collection's total_reviews equals the sum of the
\* cards' total_reviews in every state add_card, review_card and
\* delete_card can reach.
C17_TotalIsSumOfCards == surplus(file) = 0

\* C17, amended: the collection's total_reviews counts the completed
\* reviews.  add_card and review_card keep it equal to the sum over the
\* cards; delete_card leaves it as it is, so it is never below the sum and
\* exceeds it by the reviews of the cards deleted.
C17_TotalCountsReviews ==
    /\ [](surplus(file) >= 0)
    /\ [][IF ret'.op = "delete_card"
          THEN stats_of(file').total_reviews = stats_of(file).total_reviews
          ELSE surplus(file') = surplus(file)]_vars

\* a reviewed card has just been deleted: the counter is above the sum
C17_Witness ==
    /\ ret.op = "delete_card" /\ ret.returned
    /\ surplus(file) > 0
    /\ stats_of(file).total_reviews = ret.stats_before[1].total_reviews

\* C20: the collection's stats change only in a review_card call that
\* completes: add_card, delete_card, get_due_cards, get_stats, list_cards,
\* get_random_card and the export leave them as they are.
C20_StatsChangeOnlyInReview ==
    [][stats_of(file') # stats_of(file)
         => (ret'.op = "review_card" /\ ret'.error = "")]_vars

\* a card has been added to a store whose stats record a review
C20_Witness ==
    /\ ret.op = "add_card"
    /\ stats_of(file).total_reviews >= 1
    /\ stats_of(file).streak_days >= 1
    /\ stats_of(file).last_review_date # None

\* C19: an interruption of the quiz while it waits for a rating leaves the
\* stored state as the last completed review left it: the step changes
\* neither the card on show nor the stats, and since that review no step of
\* the quiz has written the store.
C19_InterruptKeepsState ==
    [][/\ (proc.pc = "rating" /\ ret'.op = "interactive_quiz"
              /\ ret'.error = "KeyboardInterrupt")
          => /\ file' = file
             /\ proc'.pc = "idle"
       /\ (proc.pc # "idle" /\ file' # file)
          => (ret'.op = "review_card" /\ ret'.error = "")]_vars

\* the quiz was interrupted at its second card after the first was rated:
\* the card on show is stored as it was shown, never reviewed
C19_Witness ==
    /\ ret.op = "interactive_quiz" /\ ret.error = "KeyboardInterrupt"
    /\ stats_of(file).total_reviews = 1
    /\ ret.cards[1].total_reviews = 0
    /\ \E i \in 1..Len(cards_of(file)) : cards_of(file)[i] = ret.cards[1]
    /\ \E i \in 1..Len(cards_of(file)) : cards_of(file)[i].total_reviews = 1

\* C12: a save replaces the stored state atomically.  A load that follows a
\* save, a save cut short by a crash included, succeeds, and what a cut
\* short save leaves in the file is the whole previous state or the whole
\* new state.
C12_SaveIsAtomic ==
    /\ ret.op = "load_cards" => ret.error = ""
    /\ proc.pc = "crashed" => file \in {proc.old, <<proc.data[1]>>}

\* the fields of a card no call is to change
fixed_fields(card) ==
    <<card.id, card.question, card.answer, card.category, card.tags,
      card.source, card.created>>

\* C21: a completed review_card changes one card only, the one it looked
\* up by id, and leaves that card's id, question, answer, category, tags,
\* source and created as they were; add_card keeps every stored card as it
\* is and appends one; delete_card keeps, unchanged and in order, the cards
\* it does not remove.
C21_CallsChangeOnlyTheirCard ==
    [][/\ Reviewed =>
            /\ Len(cards_of(file')) = Len(cards_of(file))
            /\ \A j \in 1..Len(cards_of(file)) :
                  j # find_card(cards_of(file), ret'.id)
                      => cards_of(file')[j] = cards_of(file)[j]
            /\ fixed_fields(NewCard) = fixed_fields(OldCard)
       /\ ret'.op = "add_card" =>
            /\ Len(cards_of(file')) = Len(cards_of(file)) + 1
            /\ SubSeq(cards_of(file'), 1, Len(cards_of(file))) = cards_of(file)
       /\ ret'.op = "delete_card" =>
            cards_of(file') =
                SelectSeq(cards_of(file), LAMBDA c : c.id # ret'.id)]_vars

\* the first of two cards has been reviewed, some time after it was
\* created; the second is still as add_card made it
C21_Witness ==
    /\ ret.op = "review_card" /\ ret.error = ""
    /\ Len(cards_of(file)) = 2
    /\ cards_of(file)[1].id # cards_of(file)[2].id
    /\ cards_of(file)[1].id = ret.id
    /\ cards_of(file)[1].total_reviews = 1
    /\ cards_of(file)[1].created # cards_of(file)[1].last_review[1]
    /\ cards_of(file)[2].total_reviews = 0

\* C22: the mastery buckets partition the collection: every card is in
\* exactly one of mastered, learning and new, and the three counts that
\* get_stats returns add up to total_cards.
C22_BucketsPartition ==
    /\ \A i \in 1..Len(cards_of(file)) :
          Cardinality({b \in {"mastered", "learning", "new"} :
              \/ b = "mastered" /\ i \in mastered(cards_of(file))
              \/ b = "learning" /\ i \in learning(cards_of(file))
              \/ b = "new" /\ i \in new(cards_of(file))}) = 1
    /\ ret.op = "get_stats" =>
          ret.stats[1].mastered + ret.stats[1].learning + ret.stats[1].new
              = ret.stats[1].total_cards

\* get_stats has counted a mastered and a learning card
C22_Witness ==
    /\ ret.op = "get_stats"
    /\ ret.stats[1].total_cards = 2
    /\ ret.stats[1].mastered = 1
    /\ ret.stats[1].learning = 1
    /\ ret.stats[1].new = 0

\* C23: delete_card returns True and removes the card with the id when the
\* collection holds it, leaving the other cards and the stats as they were;
\* when no card has the id it returns False, raises nothing and leaves the
\* stored state as it was.
C23_DeleteCard ==
    [][ret'.op = "delete_card" =>
         /\ ret'.error = ""
         /\ IF \E i \in 1..Len(cards_of(file)) : cards_of(file)[i].id = ret'.id
            THEN /\ ret'.returned
                 /\ \A i \in 1..Len(cards_of(file')) :
                       cards_of(file')[i].id # ret'.id
                 /\ cards_of(file') =
                       SelectSeq(cards_of(file), LAMBDA c : c.id # ret'.id)
                 /\ stats_of(file') = stats_of(file)
            ELSE /\ ~ret'.returned
                 /\ file' = file]_vars

\* one of two cards has been deleted from a store with a review on record
C23_Witness ==
    /\ ret.op = "delete_card" /\ ret.returned
    /\ Len(cards_of(file)) = 1
    /\ cards_of(file)[1].id # ret.id
    /\ stats_of(file).total_reviews >= 1
    /\ stats_of(file) = ret.stats_before[1]

\* C24: the card add_card returns has ease_factor 2.5, interval 0,
\* repetitions 0, total_reviews 0, no last_review and next_review not before
\* created; every card not yet reviewed is due at any later time, and a
\* due selection without limit returns it.
C24_NewCardIsDue ==
    /\ ret.op = "add_card" =>
          /\ ret.cards[1].ease_factor = 250
          /\ ret.cards[1].interval = 0
          /\ ret.cards[1].repetitions = 0
          /\ ret.cards[1].total_reviews = 0
          /\ ret.cards[1].last_review = None
          /\ ret.cards[1].created = isoformat(now)
          /\ ~str_lt(ret.cards[1].next_review, ret.cards[1].created)
          /\ cards_of(file)[Len(cards_of(file))] = ret.cards[1]
    /\ \A i \in 1..Len(cards_of(file)) :
          cards_of(file)[i].total_reviews = 0 =>
              /\ ~str_lt(isoformat(now), cards_of(file)[i].created)
              /\ ~str_lt(isoformat(now), cards_of(file)[i].next_review)
              /\ (ret.op = "get_due_cards" /\ ret.limit = None) =>
                    \E k \in 1..Len(ret.cards) : ret.cards[k] = cards_of(file)[i]

\* an unlimited due selection, made after the clock has moved on, returns
\* a card that was never reviewed next to one that was
C24_Witness ==
    /\ ret.op = "get_due_cards" /\ ret.limit = None
    /\ Len(ret.cards) = 1
    /\ ret.cards[1].total_reviews = 0
    /\ str_lt(ret.cards[1].created, isoformat(now))
    /\ Len(cards_of(file)) = 2

\* the change of the ease factor, in hundredths, for quality 0..5
C25_Deltas == <<-80, -54, -32, -14, 0, 10>>

\* C25: a review of quality q moves the ease factor by +0.10, 0, -0.14,
\* -0.32, -0.54, -0.80 for q = 5, 4, 3, 2, 1, 0 and then raises the result
\* to 1.3 if it is lower, on failed and successful reviews alike; only
\* quality 5 raises the ease factor.
C25_EaseUpdate ==
    (ret.op = "review_card" /\ ret.before # None) =>
        LET old == ret.before[1].ease_factor
            raw == old + C25_Deltas[ret.quality + 1]
            new_ease == ret.cards[1].ease_factor
        IN  /\ new_ease = IF raw < 130 THEN 130 ELSE raw
            /\ new_ease > old => ret.quality = 5
            /\ (ret.quality = 5 /\ ret.before[1].total_reviews = 0) => new_ease = 260
            /\ (ret.quality = 5 /\ old = 260) => new_ease = 270

\* the second of two reviews of quality 5 takes a new card from 2.6 to 2.7
C25_Witness ==
    /\ ret.op = "review_card" /\ ret.before # None
    /\ ret.quality = 5
    /\ ret.before[1].total_reviews = 1
    /\ ret.before[1].ease_factor = 260
    /\ ret.cards[1].ease_factor = 270
    /\ ret.cards[1] \in Range(cards_of(file))

\* a failed review lowers the ease factor, here to the floor
C25_WitnessFloor ==
    /\ ret.op = "review_card" /\ ret.before # None
    /\ ret.quality < 3
    /\ ret.before[1].ease_factor + C25_Deltas[ret.quality + 1] < 130
    /\ ret.cards[1].ease_factor = 130

\* the time from which a reviewed card is due again
C26_due_from(card) == plus_days(fromisoformat(card.last_review[1]), card.interval)

\* C26: a completed review at time t sets last_review to t and next_review
\* to t plus interval days, the interval being at least one day; a due
\* selection returns no reviewed card before that time.
C26_ReviewSchedules ==
    /\ (ret.op = "review_card" /\ ret.before # None) =>
          /\ ret.cards[1].last_review = Some(isoformat(now))
          /\ ret.cards[1].next_review = isoformat(plus_days(now, ret.cards[1].interval))
          /\ ret.cards[1].interval >= 1
          /\ ret.cards[1] \in Range(cards_of(file))
    /\ \A i \in 1..Len(cards_of(file)) :
          cards_of(file)[i].last_review # None =>
              /\ cards_of(file)[i].interval >= 1
              /\ fromisoformat(cards_of(file)[i].next_review) = C26_due_from(cards_of(file)[i])
    /\ ret.op = "get_due_cards" =>
          \A k \in 1..Len(ret.cards) :
              ret.cards[k].last_review # None => C26_due_from(ret.cards[k]) <= now

\* a due selection made after a review, but less than interval days after
\* it, leaves the reviewed card out
C26_Witness ==
    /\ ret.op = "get_due_cards" /\ ret.limit = None
    /\ \E i \in 1..Len(cards_of(file)) :
          /\ cards_of(file)[i].last_review # None
          /\ fromisoformat(cards_of(file)[i].last_review[1]) < now
          /\ now < C26_due_from(cards_of(file)[i])
          /\ \A k \in 1..Len(ret.cards) : ret.cards[k].id # cards_of(file)[i].id

\* a due selection made interval days after the review returns the card
C26_WitnessDueAgain ==
    /\ ret.op = "get_due_cards"
    /\ \E k \in 1..Len(ret.cards) :
          /\ ret.cards[k].last_review # None
          /\ C26_due_from(ret.cards[k]) = now

\* C27: with two invocations interleaving, or one killed between its load
\* and its save, whenever no save is under way the file holds a state that
\* an invocation computed in full, and every card in it has
\* ease_factor >= 1.3, interval >= 0 and repetitions >= 0.
C27_PersistedStateIsWhole ==
    (\A p \in Processes : proc[p].pc # "writing") =>
        /\ ~torn(file)
        /\ \A i \in 1..Len(cards_of(file)) :
              /\ cards_of(file)[i].ease_factor >= 130
              /\ cards_of(file)[i].interval >= 0
              /\ cards_of(file)[i].repetitions >= 0

\* an update is lost: both processes have saved and the file holds what
\* the one that loaded before the other's save computed
C27_LostUpdate ==
    /\ \A p \in Processes : proc[p].pc = "idle"
    /\ ~torn(file)
    /\ Len(cards_of(file)) = 2
    /\ stats_of(file).total_reviews = 0
    /\ now = 0
    /\ ret.op = "save_cards"

\* C28: a card with repetitions 0 has interval 0 or 1 and a card with
\* repetitions 1 has interval 1; a successful review that follows a
\* successful review of the same card never makes the interval smaller.
C28_IntervalShape ==
    /\ \A i \in 1..Len(cards_of(file)) :
          /\ cards_of(file)[i].repetitions = 0 => cards_of(file)[i].interval \in {0, 1}
          /\ cards_of(file)[i].repetitions = 1 => cards_of(file)[i].interval = 1
    /\ (ret.op = "review_card" /\ ret.before # None /\ ret.quality >= 3
           /\ ret.before[1].repetitions >= 1) =>
          ret.cards[1].interval >= ret.before[1].interval

\* the third success in a row: the interval goes from 6 to more than 6
C28_Witness ==
    /\ ret.op = "review_card" /\ ret.before # None /\ ret.quality >= 3
    /\ ret.before[1].repetitions = 2
    /\ ret.before[1].interval = 6
    /\ ret.cards[1].repetitions = 3
    /\ ret.cards[1].interval > 6
    /\ ret.cards[1] \in Range(cards_of(file))

===========================================================================
